---- MODULE Spec2Model ----
(***************************************************************************)
(* Model of include/ScanConversionResamplingMethods.h: the dispatcher      *)
(* ScanConversionResampling and the three adapters                         *)
(* ITKScanConversionResampling, VTKProbeFilterResampling and               *)
(* VTKPointInterpolatorResampling.  One behaviour is one call of one of    *)
(* the four functions; every action is one statement (or one run of        *)
(* setter statements) of the source.  The toolkits are modelled only by    *)
(* what the wrapper can observe: which objects exist, what was set on      *)
(* them, how often each was updated, and whether an ITK Update() returned  *)
(* or threw.                                                               *)
(***************************************************************************)
EXTENDS Integers, Sequences, FiniteSets

\* ------------------------------------------------------------------ bounds
MaxDim == 2
MaxSpacing == 2
MaxOrigin == 1
MaxDirection == 1

\* ------------------------------------------------- enum and program values
ITK_NEAREST_NEIGHBOR == 0
ITK_LINEAR == 1
ITK_WINDOWED_SINC == 2
VTK_PROBE_FILTER == 3
VTK_GAUSSIAN_KERNEL == 4
VTK_LINEAR_KERNEL == 5
VTK_SHEPARD_KERNEL == 6
VTK_VORONOI_KERNEL == 7

ScanConversionResamplingMethod == ITK_NEAREST_NEIGHBOR .. VTK_VORONOI_KERNEL

EXIT_SUCCESS == 0
EXIT_FAILURE == 1

\* Radius of the Lanczos window of the windowed-sinc interpolator.
Radius == 3

\* A local that has not been given a value yet, a function that has not
\* returned yet.
NoMethod == 0 - 1
NoReturn == 0 - 1

\* ------------------------------------------------------------------ inputs
RecognisedNames ==
  { "ITKNearestNeighbor", "ITKLinear", "ITKWindowedSinc", "VTKProbeFilter",
    "VTKGaussianKernel", "VTKLinearKernel", "VTKShepardKernel", "VTKVoronoiKernel" }

UnrecognisedNames == { "", "itklinear", "VTKLINEARKERNEL", "Bogus" }

MethodStrings == RecognisedNames \cup UnrecognisedNames

\* The four functions of the header; each can be the one the caller calls.
Entries == { "ScanConversionResampling", "ITKScanConversionResampling",
             "VTKProbeFilterResampling", "VTKPointInterpolatorResampling" }

Sizes == { <<n, n, n>> : n \in 1 .. MaxDim }
Spacings == { <<a, b, c>> : a \in 1 .. MaxSpacing, b \in 1 .. MaxSpacing, c \in 1 .. MaxSpacing }
Origins == { <<o, o, o>> : o \in 0 .. MaxOrigin }
\* Direction matrices by index; 0 is the identity.
Directions == 0 .. MaxDirection

\* What the toolkits give an object the wrapper never configured.
DefaultSize == <<0, 0, 0>>
DefaultSpacing == <<1, 1, 1>>
DefaultOrigin == <<0, 0, 0>>
IdentityDirection == 0

\* ITK_NULLPTR as a vtkInterpolationKernel pointer.
NullKernel == [ class |-> "null", footprint |-> "none", radius |-> 0 ]

\* The image the caller's outputImage pointer refers to before the call.
CallerImage == [ source |-> "caller", type |-> "OutputImageType", information |-> "caller" ]

\* ------------------------------------------------------------------ stages
ITKStages == { "resampler" }
ProbeStages == { "conversionFilter", "probeFilter", "vtkToITKFilter" }
PointStages == { "conversionFilter", "pointInterpolator", "vtkToITKFilter", "caster" }
Stages == ITKStages \cup ProbeStages \cup PointStages

ITKMethods == { ITK_NEAREST_NEIGHBOR, ITK_LINEAR, ITK_WINDOWED_SINC }
KernelMethods == { VTK_GAUSSIAN_KERNEL, VTK_LINEAR_KERNEL, VTK_SHEPARD_KERNEL, VTK_VORONOI_KERNEL }

VARIABLES
  entry,          \* the function the caller called
  methodString,   \* argument of ScanConversionResampling
  size, spacing, origin, direction,   \* the caller's geometry
  method,         \* the enum local / argument
  outputImage,    \* the caller's output pointer (by reference)
  assignments,    \* how often outputImage has been assigned
  pc,             \* position in the code
  adapter,        \* the adapter that is running, "none" before
  adapterCalls,   \* <<adapter, method>> of each adapter the dispatcher invoked
  adapterRet,     \* what the adapter returned
  ret,            \* what ScanConversionResampling returned
  cerr,           \* the messages written to std::cerr
  constructed,    \* toolkit objects constructed so far
  input,          \* per stage: the object set as its input
  source,         \* per stage: the object set as its source data
  updates,        \* per stage: number of Update() calls
  staleReads,     \* stages whose output was read before any Update()
  resampler,      \* parameters of the itk::ResampleImageFilter
  grid,           \* parameters of the vtkImageData
  pointInterpolator,    \* parameters of the vtkPointInterpolator
  interpolationKernel,  \* the local pointer: NullKernel or the kernel
  kernelsNew,     \* number of kernels created with New()
  kernelsDeleted, \* number of Delete() calls on a kernel
  nullDeletes,    \* number of Delete() calls through a null pointer
  radius,         \* the local radius, in tenths
  returnLine      \* source line of the return statement taken, 0 before

vars == << entry, methodString, size, spacing, origin, direction, method,
           outputImage, assignments, pc, adapter, adapterCalls, adapterRet, ret,
           cerr, constructed, input, source, updates, staleReads, resampler,
           grid, pointInterpolator, interpolationKernel, kernelsNew,
           kernelsDeleted, nullDeletes, radius, returnLine >>

args == << entry, methodString, size, spacing, origin, direction >>
toolkit == << constructed, input, source, updates, staleReads, resampler,
              grid, pointInterpolator >>
kernel == << interpolationKernel, kernelsNew, kernelsDeleted, nullDeletes, radius >>
caller == << outputImage, assignments >>

\* ------------------------------------------------------------------- Init
\* The state at the call: the caller has chosen the function and its
\* arguments, and no statement has run.
FirstPc(e) ==
  CASE e = "ScanConversionResampling" -> "SCR_parse"
    [] e = "ITKScanConversionResampling" -> "ITK_new"
    [] e = "VTKProbeFilterResampling" -> "PF_conversion"
    [] e = "VTKPointInterpolatorResampling" -> "PI_conversion"

Init ==
  /\ entry \in Entries
  /\ methodString \in (IF entry = "ScanConversionResampling" THEN MethodStrings ELSE { "" })
  /\ size \in Sizes
  /\ spacing \in Spacings
  /\ origin \in Origins
  /\ direction \in Directions
  /\ method \in (CASE entry = "ScanConversionResampling" -> { NoMethod }
                   [] entry = "VTKProbeFilterResampling" -> { NoMethod }
                   [] OTHER -> ScanConversionResamplingMethod)
  /\ outputImage = CallerImage
  /\ assignments = 0
  /\ pc = FirstPc(entry)
  /\ adapter = (IF entry = "ScanConversionResampling" THEN "none" ELSE entry)
  /\ adapterCalls = << >>
  /\ adapterRet = NoReturn
  /\ ret = NoReturn
  /\ cerr = << >>
  /\ constructed = { }
  /\ input = [ s \in Stages |-> "none" ]
  /\ source = [ s \in Stages |-> "none" ]
  /\ updates = [ s \in Stages |-> 0 ]
  /\ staleReads = { }
  /\ resampler = [ size |-> DefaultSize, spacing |-> DefaultSpacing, origin |-> DefaultOrigin,
                   direction |-> IdentityDirection, interpolator |-> << "default", 0 >> ]
  /\ grid = [ dimensions |-> DefaultSize, spacing |-> DefaultSpacing, origin |-> DefaultOrigin,
              direction |-> IdentityDirection, bounds |-> FALSE, scalars |-> 0 ]
  /\ pointInterpolator = [ passPointArrays |-> TRUE, nullPointsStrategy |-> "default",
                           nullValue |-> 0, kernel |-> NullKernel ]
  /\ interpolationKernel = NullKernel
  /\ kernelsNew = 0
  /\ kernelsDeleted = 0
  /\ nullDeletes = 0
  /\ radius = 0
  /\ returnLine = 0

\* ------------------------------------------------------ common operations
\* filter->GetOutput(): the name of the stage stands for its output; a read
\* before the stage's first Update() is recorded.
ReadOutput(stage) == IF updates[stage] = 0 THEN staleReads \cup { stage } ELSE staleReads

\* An adapter returns code: to the dispatcher when it was called by it,
\* to the caller otherwise.
AdapterReturns(code, line) ==
  /\ adapterRet' = code
  /\ returnLine' = line
  /\ pc' = IF entry = "ScanConversionResampling" THEN "SCR_return" ELSE "done"

\* ------------------------------------------- ScanConversionResampling
\* Mutant: the "VTKLinearKernel" branch assigns ITK_LINEAR.
MethodFromString_LinearKernelAsITKLinear(s) ==
  CASE s = "ITKNearestNeighbor" -> ITK_NEAREST_NEIGHBOR
    [] s = "ITKLinear" -> ITK_LINEAR
    [] s = "ITKWindowedSinc" -> ITK_WINDOWED_SINC
    [] s = "VTKProbeFilter" -> VTK_PROBE_FILTER
    [] s = "VTKGaussianKernel" -> VTK_GAUSSIAN_KERNEL
    [] s = "VTKLinearKernel" -> ITK_LINEAR
    [] s = "VTKShepardKernel" -> VTK_SHEPARD_KERNEL
    [] s = "VTKVoronoiKernel" -> VTK_VORONOI_KERNEL
    [] OTHER -> ITK_LINEAR

\* The if / else-if chain over methodString; the initial value of the local
\* is what an unmatched string leaves.
MethodFromString(s) ==
  CASE s = "ITKNearestNeighbor" -> ITK_NEAREST_NEIGHBOR
    [] s = "ITKLinear" -> ITK_LINEAR
    [] s = "ITKWindowedSinc" -> ITK_WINDOWED_SINC
    [] s = "VTKProbeFilter" -> VTK_PROBE_FILTER
    [] s = "VTKGaussianKernel" -> VTK_GAUSSIAN_KERNEL
    [] s = "VTKLinearKernel" -> VTK_LINEAR_KERNEL
    [] s = "VTKShepardKernel" -> VTK_SHEPARD_KERNEL
    [] s = "VTKVoronoiKernel" -> VTK_VORONOI_KERNEL
    [] OTHER -> ITK_LINEAR

\* Mutant: case VTK_PROBE_FILTER is grouped with the kernel cases.
DispatchTarget_ProbeAmongKernels(m) ==
  CASE m \in { ITK_NEAREST_NEIGHBOR, ITK_LINEAR, ITK_WINDOWED_SINC } -> "ITKScanConversionResampling"
    [] m \in { VTK_PROBE_FILTER, VTK_GAUSSIAN_KERNEL, VTK_LINEAR_KERNEL, VTK_SHEPARD_KERNEL,
               VTK_VORONOI_KERNEL } -> "VTKPointInterpolatorResampling"
    [] OTHER -> "none"

\* The case labels of the dispatcher's switch.
DispatchTarget(m) ==
  CASE m \in { ITK_NEAREST_NEIGHBOR, ITK_LINEAR, ITK_WINDOWED_SINC } -> "ITKScanConversionResampling"
    [] m = VTK_PROBE_FILTER -> "VTKProbeFilterResampling"
    [] m \in { VTK_GAUSSIAN_KERNEL, VTK_LINEAR_KERNEL, VTK_SHEPARD_KERNEL, VTK_VORONOI_KERNEL } ->
         "VTKPointInterpolatorResampling"
    [] OTHER -> "none"

SCRParse ==
  /\ pc = "SCR_parse"
  /\ method' = MethodFromString(methodString)
  /\ pc' = "SCR_switch"
  /\ UNCHANGED << args, caller, adapter, adapterCalls, adapterRet, ret,
                  cerr, toolkit, kernel, returnLine >>

SCRSwitch ==
  /\ pc = "SCR_switch"
  /\ LET target == DispatchTarget(method) IN
       IF target = "none"
         THEN /\ cerr' = Append(cerr, "Unknown scan conversion resampling method")
              /\ ret' = EXIT_FAILURE
              /\ returnLine' = 392
              /\ pc' = "done"
              /\ UNCHANGED << adapter, adapterCalls >>
         ELSE /\ adapter' = target
              /\ adapterCalls' = Append(adapterCalls, << target, method >>)
              /\ pc' = FirstPc(target)
              /\ UNCHANGED << cerr, ret, returnLine >>
  /\ UNCHANGED << args, method, caller, adapterRet, toolkit, kernel >>

\* Mutant: the adapter is called without "return", so control reaches the
\* function's last line.
SCRReturn_FallsToFailure ==
  /\ pc = "SCR_return"
  /\ ret' = EXIT_FAILURE
  /\ pc' = "done"
  /\ UNCHANGED << args, method, caller, adapter, adapterCalls,
                  adapterRet, cerr, toolkit, kernel, returnLine >>

\* return <adapter>( ... );
SCRReturn ==
  /\ pc = "SCR_return"
  /\ ret' = adapterRet
  /\ pc' = "done"
  /\ UNCHANGED << args, method, caller, adapter, adapterCalls,
                  adapterRet, cerr, toolkit, kernel, returnLine >>

\* ---------------------------------------- ITKScanConversionResampling
\* Mutant: outputImage is taken from the resampler as soon as it exists.
ITKNew_AssignsOutputEarly ==
  /\ pc = "ITK_new"
  /\ constructed' = constructed \cup { "resampler" }
  /\ input' = [ input EXCEPT !["resampler"] = "inputImage" ]
  /\ outputImage' = [ source |-> "resampler", type |-> "OutputImageType",
                      information |-> "resampler" ]
  /\ assignments' = assignments + 1
  /\ pc' = "ITK_geometry"
  /\ UNCHANGED << args, method, adapter, adapterCalls, adapterRet, ret, cerr,
                  source, updates, staleReads, resampler, grid, pointInterpolator,
                  kernel, returnLine >>

\* ResamplerType::New(); resampler->SetInput( inputImage );
ITKNew ==
  /\ pc = "ITK_new"
  /\ constructed' = constructed \cup { "resampler" }
  /\ input' = [ input EXCEPT !["resampler"] = "inputImage" ]
  /\ pc' = "ITK_geometry"
  /\ UNCHANGED << args, method, caller, adapter, adapterCalls, adapterRet, ret, cerr,
                  source, updates, staleReads, resampler, grid, pointInterpolator,
                  kernel, returnLine >>

\* Mutant: SetOutputDirection is left out.
ITKSetGeometry_NoDirection ==
  /\ pc = "ITK_geometry"
  /\ resampler' = [ resampler EXCEPT !.size = size, !.spacing = spacing, !.origin = origin ]
  /\ pc' = "ITK_switch"
  /\ UNCHANGED << args, method, caller, adapter, adapterCalls, adapterRet, ret, cerr,
                  constructed, input, source, updates, staleReads, grid,
                  pointInterpolator, kernel, returnLine >>

\* SetSize, SetOutputSpacing, SetOutputOrigin, SetOutputDirection
ITKSetGeometry ==
  /\ pc = "ITK_geometry"
  /\ resampler' = [ resampler EXCEPT !.size = size, !.spacing = spacing,
                                      !.origin = origin, !.direction = direction ]
  /\ pc' = "ITK_switch"
  /\ UNCHANGED << args, method, caller, adapter, adapterCalls, adapterRet, ret, cerr,
                  constructed, input, source, updates, staleReads, grid,
                  pointInterpolator, kernel, returnLine >>

\* The interpolator each case of the switch constructs.
ITKInterpolator(m) ==
  CASE m = ITK_NEAREST_NEIGHBOR -> << "NearestNeighborInterpolateImageFunction", 0 >>
    [] m = ITK_LINEAR -> << "LinearInterpolateImageFunction", 0 >>
    [] m = ITK_WINDOWED_SINC -> << "WindowedSincInterpolateImageFunction", Radius >>
    [] OTHER -> << "unsupported", 0 >>

\* Mutant: the default branch prints and does not return.
ITKSwitch_DefaultFallsThrough ==
  /\ pc = "ITK_switch"
  /\ IF ITKInterpolator(method)[1] # "unsupported"
       THEN /\ constructed' = constructed \cup { "interpolator" }
            /\ resampler' = [ resampler EXCEPT !.interpolator = ITKInterpolator(method) ]
            /\ UNCHANGED cerr
       ELSE /\ cerr' = Append(cerr, "Unsupported resampling method in ITKScanConversionResampling")
            /\ UNCHANGED << constructed, resampler >>
  /\ pc' = "ITK_update"
  /\ UNCHANGED << args, method, caller, adapter, adapterCalls, adapterRet, ret, input,
                  source, updates, staleReads, grid, pointInterpolator, kernel,
                  returnLine >>

ITKSwitch ==
  /\ pc = "ITK_switch"
  /\ IF ITKInterpolator(method)[1] # "unsupported"
       THEN /\ constructed' = constructed \cup { "interpolator" }
            /\ resampler' = [ resampler EXCEPT !.interpolator = ITKInterpolator(method) ]
            /\ pc' = "ITK_update"
            /\ UNCHANGED << cerr, adapterRet, returnLine >>
       ELSE /\ cerr' = Append(cerr, "Unsupported resampling method in ITKScanConversionResampling")
            /\ AdapterReturns(EXIT_FAILURE, 109)
            /\ UNCHANGED << constructed, resampler >>
  /\ UNCHANGED << args, method, caller, adapter, adapterCalls, ret, input, source,
                  updates, staleReads, grid, pointInterpolator, kernel >>

\* Mutant: a failed Update() is tried a second time.
ITKFilterUpdate_RetriesOnce(stage, nextPc) ==
  /\ updates' = [ updates EXCEPT ![stage] = @ + 1 ]
  /\ \E returns \in BOOLEAN :
       pc' = IF returns THEN nextPc ELSE IF updates[stage] = 0 THEN pc ELSE "thrown"
  /\ UNCHANGED << args, method, caller, adapter, adapterCalls, adapterRet, ret, cerr,
                  constructed, input, source, staleReads, resampler, grid,
                  pointInterpolator, kernel, returnLine >>

\* An ITK filter's Update(): it returns, or it throws an itk::ExceptionObject,
\* which nothing in this file catches.
ITKFilterUpdate(stage, nextPc) ==
  /\ updates' = [ updates EXCEPT ![stage] = @ + 1 ]
  /\ \E returns \in BOOLEAN : pc' = IF returns THEN nextPc ELSE "thrown"
  /\ UNCHANGED << args, method, caller, adapter, adapterCalls, adapterRet, ret, cerr,
                  constructed, input, source, staleReads, resampler, grid,
                  pointInterpolator, kernel, returnLine >>

\* A VTK algorithm's Update(): errors are reported, not thrown.
VTKFilterUpdate(stage, nextPc) ==
  /\ updates' = [ updates EXCEPT ![stage] = @ + 1 ]
  /\ pc' = nextPc
  /\ UNCHANGED << args, method, caller, adapter, adapterCalls, adapterRet, ret, cerr,
                  constructed, input, source, staleReads, resampler, grid,
                  pointInterpolator, kernel, returnLine >>

ITKUpdate ==
  /\ pc = "ITK_update"
  /\ ITKFilterUpdate("resampler", "ITK_output")

\* outputImage = resampler->GetOutput(); return EXIT_SUCCESS;
ITKOutput ==
  /\ pc = "ITK_output"
  /\ staleReads' = ReadOutput("resampler")
  /\ outputImage' = [ source |-> "resampler", type |-> "OutputImageType",
                      information |-> "resampler" ]
  /\ assignments' = assignments + 1
  /\ AdapterReturns(EXIT_SUCCESS, 116)
  /\ UNCHANGED << args, method, adapter, adapterCalls, ret, cerr, constructed, input,
                  source, updates, resampler, grid, pointInterpolator, kernel >>

ITKScanConversionResampling == ITKNew \/ ITKSetGeometry \/ ITKSwitch \/ ITKUpdate \/ ITKOutput

\* ------------------------------------------- VTKProbeFilterResampling
\* ConversionFilterType::New(); conversionFilter->SetInput( inputImage );
ConversionNew(nextPc) ==
  /\ constructed' = constructed \cup { "conversionFilter" }
  /\ input' = [ input EXCEPT !["conversionFilter"] = "inputImage" ]
  /\ pc' = nextPc
  /\ UNCHANGED << args, method, caller, adapter, adapterCalls, adapterRet, ret, cerr,
                  source, updates, staleReads, resampler, grid, pointInterpolator,
                  kernel, returnLine >>

PFConversion ==
  /\ pc = "PF_conversion"
  /\ ConversionNew("PF_conversion_update")

PFConversionUpdate ==
  /\ pc = "PF_conversion_update"
  /\ ITKFilterUpdate("conversionFilter", "PF_grid")

\* inputStructuredGrid = conversionFilter->GetOutput(); the vtkImageData grid
\* with SetDimensions, SetSpacing, SetOrigin, ComputeBounds.
PFGrid ==
  /\ pc = "PF_grid"
  /\ staleReads' = ReadOutput("conversionFilter")
  /\ constructed' = constructed \cup { "grid" }
  /\ grid' = [ grid EXCEPT !.dimensions = size, !.spacing = spacing, !.origin = origin,
                           !.bounds = TRUE ]
  /\ pc' = "PF_probe"
  /\ UNCHANGED << args, method, caller, adapter, adapterCalls, adapterRet, ret, cerr,
                  input, source, updates, resampler, pointInterpolator, kernel,
                  returnLine >>

\* vtkNew< vtkProbeFilter >; SetSourceData( inputStructuredGrid ); SetInputData( grid )
PFProbe ==
  /\ pc = "PF_probe"
  /\ constructed' = constructed \cup { "probeFilter" }
  /\ source' = [ source EXCEPT !["probeFilter"] = "conversionFilter" ]
  /\ input' = [ input EXCEPT !["probeFilter"] = "grid" ]
  /\ pc' = "PF_probe_update"
  /\ UNCHANGED << args, method, caller, adapter, adapterCalls, adapterRet, ret, cerr,
                  updates, staleReads, resampler, grid, pointInterpolator, kernel,
                  returnLine >>

PFProbeUpdate ==
  /\ pc = "PF_probe_update"
  /\ VTKFilterUpdate("probeFilter", "PF_vtk_to_itk")

\* VTKToITKFilterType::New(); SetInput( probeFilter->GetImageDataOutput() )
PFVtkToITK ==
  /\ pc = "PF_vtk_to_itk"
  /\ constructed' = constructed \cup { "vtkToITKFilter" }
  /\ staleReads' = ReadOutput("probeFilter")
  /\ input' = [ input EXCEPT !["vtkToITKFilter"] = "probeFilter" ]
  /\ pc' = "PF_vtk_to_itk_update"
  /\ UNCHANGED << args, method, caller, adapter, adapterCalls, adapterRet, ret, cerr,
                  source, updates, resampler, grid, pointInterpolator, kernel,
                  returnLine >>

PFVtkToITKUpdate ==
  /\ pc = "PF_vtk_to_itk_update"
  /\ ITKFilterUpdate("vtkToITKFilter", "PF_output")

\* A new OutputImageType with the regions of vtkToITKFilter's output, the
\* pixels copied into it, assigned to outputImage; return EXIT_SUCCESS.
PFOutput ==
  /\ pc = "PF_output"
  /\ staleReads' = ReadOutput("vtkToITKFilter")
  /\ outputImage' = [ source |-> "vtkToITKFilter", type |-> "OutputImageType",
                      information |-> "default" ]
  /\ assignments' = assignments + 1
  /\ AdapterReturns(EXIT_SUCCESS, 168)
  /\ UNCHANGED << args, method, adapter, adapterCalls, ret, cerr, constructed, input,
                  source, updates, resampler, grid, pointInterpolator, kernel >>

VTKProbeFilterResampling ==
  \/ PFConversion \/ PFConversionUpdate \/ PFGrid \/ PFProbe \/ PFProbeUpdate
  \/ PFVtkToITK \/ PFVtkToITKUpdate \/ PFOutput

\* ------------------------------------- VTKPointInterpolatorResampling
ImageDimension == 3

PIConversion ==
  /\ pc = "PI_conversion"
  /\ ConversionNew("PI_conversion_update")

PIConversionUpdate ==
  /\ pc = "PI_conversion_update"
  /\ ITKFilterUpdate("conversionFilter", "PI_grid")

\* inputStructuredGrid = conversionFilter->GetOutput(); the vtkImageData grid
\* with SetDimensions, SetSpacing, SetOrigin, ComputeBounds and the "Scalars"
\* array allocated for size[0] * size[1] * size[2] values.
PIGrid ==
  /\ pc = "PI_grid"
  /\ staleReads' = ReadOutput("conversionFilter")
  /\ constructed' = constructed \cup { "grid", "scalars" }
  /\ grid' = [ grid EXCEPT !.dimensions = size, !.spacing = spacing, !.origin = origin,
                           !.bounds = TRUE, !.scalars = size[1] * size[2] * size[3] ]
  /\ pc' = "PI_interpolator"
  /\ UNCHANGED << args, method, caller, adapter, adapterCalls, adapterRet, ret, cerr,
                  input, source, updates, resampler, pointInterpolator, kernel,
                  returnLine >>

\* vtkNew< vtkPointInterpolator >; SetSourceData, SetInputData,
\* SetPassPointArrays( false ), SetNullPointsStrategyToNullValue, SetNullValue( 0.0 )
PIInterpolator ==
  /\ pc = "PI_interpolator"
  /\ constructed' = constructed \cup { "pointInterpolator" }
  /\ source' = [ source EXCEPT !["pointInterpolator"] = "conversionFilter" ]
  /\ input' = [ input EXCEPT !["pointInterpolator"] = "grid" ]
  /\ pointInterpolator' = [ pointInterpolator EXCEPT !.passPointArrays = FALSE,
                              !.nullPointsStrategy = "NullValue", !.nullValue = 0 ]
  /\ pc' = "PI_radius"
  /\ UNCHANGED << args, method, caller, adapter, adapterCalls, adapterRet, ret, cerr,
                  updates, staleReads, resampler, grid, kernel, returnLine >>

\* The loop over the image dimensions: the largest spacing component.
RECURSIVE MaxSpacingUpTo(_, _)
MaxSpacingUpTo(sp, ii) ==
  IF ii = 0 THEN 0
  ELSE LET m == MaxSpacingUpTo(sp, ii - 1) IN IF sp[ii] > m THEN sp[ii] ELSE m

\* interpolationKernel = ITK_NULLPTR; radius = 1.1 * maxSpacing (in tenths)
PIRadius ==
  /\ pc = "PI_radius"
  /\ interpolationKernel' = NullKernel
  /\ radius' = 11 * MaxSpacingUpTo(spacing, ImageDimension)
  /\ pc' = "PI_switch"
  /\ UNCHANGED << args, method, caller, adapter, adapterCalls, adapterRet, ret, cerr,
                  toolkit, kernelsNew, kernelsDeleted, nullDeletes, returnLine >>

\* The kernel each case of the first switch creates with New().
KernelFor(m, r) ==
  CASE m = VTK_GAUSSIAN_KERNEL -> [ class |-> "vtkGaussianKernel", footprint |-> "Radius", radius |-> r ]
    [] m = VTK_LINEAR_KERNEL -> [ class |-> "vtkLinearKernel", footprint |-> "Radius", radius |-> r ]
    [] m = VTK_SHEPARD_KERNEL -> [ class |-> "vtkShepardKernel", footprint |-> "Radius", radius |-> r ]
    [] m = VTK_VORONOI_KERNEL -> [ class |-> "vtkVoronoiKernel", footprint |-> "default", radius |-> 0 ]
    [] OTHER -> NullKernel

\* The first switch: a kernel, or the default branch's return.
PISwitch ==
  /\ pc = "PI_switch"
  /\ IF KernelFor(method, radius) # NullKernel
       THEN /\ kernelsNew' = kernelsNew + 1
            /\ interpolationKernel' = KernelFor(method, radius)
            /\ pc' = "PI_vtk_to_itk"
            /\ UNCHANGED << cerr, adapterRet, returnLine >>
       ELSE /\ cerr' = Append(cerr, "Unexpected interpolation kernel: ")
            /\ AdapterReturns(EXIT_FAILURE, 255)
            /\ UNCHANGED << kernelsNew, interpolationKernel >>
  /\ UNCHANGED << args, method, caller, adapter, adapterCalls, ret, toolkit,
                  kernelsDeleted, nullDeletes, radius >>

\* VTKToITKFilterType::New()
PIVtkToITK ==
  /\ pc = "PI_vtk_to_itk"
  /\ constructed' = constructed \cup { "vtkToITKFilter" }
  /\ pc' = "PI_set_kernel"
  /\ UNCHANGED << args, method, caller, adapter, adapterCalls, adapterRet, ret, cerr,
                  input, source, updates, staleReads, resampler, grid,
                  pointInterpolator, kernel, returnLine >>

\* The case labels of the second switch.
SecondSwitchTakesCase(m) ==
  m \in { VTK_GAUSSIAN_KERNEL, VTK_LINEAR_KERNEL, VTK_SHEPARD_KERNEL, VTK_VORONOI_KERNEL }

\* Mutant: SetKernel is left out of the second switch's case.
PISetKernel_KernelNotSet ==
  /\ pc = "PI_set_kernel"
  /\ IF SecondSwitchTakesCase(method)
       THEN /\ pc' = "PI_interpolator_update"
            /\ UNCHANGED << cerr, adapterRet, returnLine >>
       ELSE /\ cerr' = Append(cerr, "Unexpected interpolation kernel: ")
            /\ AdapterReturns(EXIT_FAILURE, 277)
  /\ UNCHANGED << args, method, caller, adapter, adapterCalls, ret, constructed, input,
                  source, updates, staleReads, resampler, grid, pointInterpolator, kernel >>

\* The second switch: pointInterpolator->SetKernel( interpolationKernel ), or
\* the default branch's return.
PISetKernel ==
  /\ pc = "PI_set_kernel"
  /\ IF SecondSwitchTakesCase(method)
       THEN /\ pointInterpolator' = [ pointInterpolator EXCEPT !.kernel = interpolationKernel ]
            /\ pc' = "PI_interpolator_update"
            /\ UNCHANGED << cerr, adapterRet, returnLine >>
       ELSE /\ cerr' = Append(cerr, "Unexpected interpolation kernel: ")
            /\ AdapterReturns(EXIT_FAILURE, 277)
            /\ UNCHANGED pointInterpolator
  /\ UNCHANGED << args, method, caller, adapter, adapterCalls, ret, constructed, input,
                  source, updates, staleReads, resampler, grid, kernel >>

PIInterpolatorUpdate ==
  /\ pc = "PI_interpolator_update"
  /\ VTKFilterUpdate("pointInterpolator", "PI_vtk_to_itk_input")

\* vtkToITKFilter->SetInput( pointInterpolator->GetImageDataOutput() )
PIVtkToITKInput ==
  /\ pc = "PI_vtk_to_itk_input"
  /\ staleReads' = ReadOutput("pointInterpolator")
  /\ input' = [ input EXCEPT !["vtkToITKFilter"] = "pointInterpolator" ]
  /\ pc' = "PI_vtk_to_itk_update"
  /\ UNCHANGED << args, method, caller, adapter, adapterCalls, adapterRet, ret, cerr,
                  constructed, source, updates, resampler, grid, pointInterpolator,
                  kernel, returnLine >>

PIVtkToITKUpdate ==
  /\ pc = "PI_vtk_to_itk_update"
  /\ ITKFilterUpdate("vtkToITKFilter", "PI_delete")

\* Mutant: the Delete() is left out.
PIDelete_Missing ==
  /\ pc = "PI_delete"
  /\ pc' = "PI_caster"
  /\ UNCHANGED << args, method, caller, adapter, adapterCalls, adapterRet, ret, cerr,
                  toolkit, kernel, returnLine >>

\* interpolationKernel->Delete()
PIDelete ==
  /\ pc = "PI_delete"
  /\ IF interpolationKernel = NullKernel
       THEN nullDeletes' = nullDeletes + 1 /\ UNCHANGED kernelsDeleted
       ELSE kernelsDeleted' = kernelsDeleted + 1 /\ UNCHANGED nullDeletes
  /\ pc' = "PI_caster"
  /\ UNCHANGED << args, method, caller, adapter, adapterCalls, adapterRet, ret, cerr,
                  toolkit, interpolationKernel, kernelsNew, radius, returnLine >>

\* CasterType::New(); caster->SetInput( vtkToITKFilter->GetOutput() )
PICaster ==
  /\ pc = "PI_caster"
  /\ constructed' = constructed \cup { "caster" }
  /\ staleReads' = ReadOutput("vtkToITKFilter")
  /\ input' = [ input EXCEPT !["caster"] = "vtkToITKFilter" ]
  /\ pc' = "PI_caster_update"
  /\ UNCHANGED << args, method, caller, adapter, adapterCalls, adapterRet, ret, cerr,
                  source, updates, resampler, grid, pointInterpolator, kernel,
                  returnLine >>

PICasterUpdate ==
  /\ pc = "PI_caster_update"
  /\ ITKFilterUpdate("caster", "PI_output")

\* A new OutputImageType with the regions and the information of the caster's
\* output, the pixels copied into it, assigned to outputImage; return
\* EXIT_SUCCESS.
PIOutput ==
  /\ pc = "PI_output"
  /\ staleReads' = ReadOutput("caster")
  /\ outputImage' = [ source |-> "caster", type |-> "OutputImageType",
                      information |-> "caster" ]
  /\ assignments' = assignments + 1
  /\ AdapterReturns(EXIT_SUCCESS, 299)
  /\ UNCHANGED << args, method, adapter, adapterCalls, ret, cerr, constructed, input,
                  source, updates, resampler, grid, pointInterpolator, kernel >>

VTKPointInterpolatorResampling ==
  \/ PIConversion \/ PIConversionUpdate \/ PIGrid \/ PIInterpolator \/ PIRadius
  \/ PISwitch \/ PIVtkToITK \/ PISetKernel \/ PIInterpolatorUpdate
  \/ PIVtkToITKInput \/ PIVtkToITKUpdate \/ PIDelete \/ PICaster \/ PICasterUpdate
  \/ PIOutput

\* ------------------------------------------------------------------- Next
Next ==
  \/ SCRParse \/ SCRSwitch \/ SCRReturn
  \/ ITKScanConversionResampling
  \/ VTKProbeFilterResampling
  \/ VTKPointInterpolatorResampling

Spec == Init /\ [][Next]_vars

\* Every statement is eventually executed: the code is one synchronous
\* thread, so a call that can take a step does take it.
FairSpec == Spec /\ WF_vars(Next)

\* ============================================================== properties
Dispatched == entry = "ScanConversionResampling"
Done == pc = "done"
Thrown == pc = "thrown"
\* What the called function returned to the caller.
CallResult == IF Dispatched THEN ret ELSE adapterRet

\* The toolkit objects each adapter's chain is made of.
StagesOf(a) ==
  CASE a = "ITKScanConversionResampling" -> ITKStages
    [] a = "VTKProbeFilterResampling" -> ProbeStages
    [] a = "VTKPointInterpolatorResampling" -> PointStages
    [] OTHER -> { }

ObjectsOf(a) ==
  CASE a = "ITKScanConversionResampling" -> ITKStages \cup { "interpolator" }
    [] a = "VTKProbeFilterResampling" -> ProbeStages \cup { "grid" }
    [] a = "VTKPointInterpolatorResampling" -> PointStages \cup { "grid", "scalars" }
    [] OTHER -> { }

\* The stage of each chain that consumes the output geometry.
GeometryStage(a) ==
  CASE a = "ITKScanConversionResampling" -> "resampler"
    [] a = "VTKProbeFilterResampling" -> "probeFilter"
    [] a = "VTKPointInterpolatorResampling" -> "pointInterpolator"

\* The last stage of each chain, whose output becomes the result.
LastStage(a) ==
  CASE a = "ITKScanConversionResampling" -> "resampler"
    [] a = "VTKProbeFilterResampling" -> "vtkToITKFilter"
    [] a = "VTKPointInterpolatorResampling" -> "caster"

\* ---------------------------------------------------------------------- C1
\* The (adapter, method) pair the claim names for each recognised name.
C1_Expected(s) ==
  CASE s = "ITKNearestNeighbor" -> << "ITKScanConversionResampling", ITK_NEAREST_NEIGHBOR >>
    [] s = "ITKLinear" -> << "ITKScanConversionResampling", ITK_LINEAR >>
    [] s = "ITKWindowedSinc" -> << "ITKScanConversionResampling", ITK_WINDOWED_SINC >>
    [] s = "VTKProbeFilter" -> << "VTKProbeFilterResampling", VTK_PROBE_FILTER >>
    [] s = "VTKGaussianKernel" -> << "VTKPointInterpolatorResampling", VTK_GAUSSIAN_KERNEL >>
    [] s = "VTKLinearKernel" -> << "VTKPointInterpolatorResampling", VTK_LINEAR_KERNEL >>
    [] s = "VTKShepardKernel" -> << "VTKPointInterpolatorResampling", VTK_SHEPARD_KERNEL >>
    [] s = "VTKVoronoiKernel" -> << "VTKPointInterpolatorResampling", VTK_VORONOI_KERNEL >>

\* C1: a call of ScanConversionResampling with a recognised methodString
\* invokes exactly one adapter, the one the name stands for, with the method
\* the name stands for; no two recognised names select the same pair.
C1_RecognisedNameSelectsItsAdapter ==
  (Dispatched /\ methodString \in RecognisedNames) =>
    /\ Len(adapterCalls) <= 1
    /\ pc \notin { "SCR_parse", "SCR_switch" } =>
         /\ adapterCalls = << C1_Expected(methodString) >>
         /\ adapter = C1_Expected(methodString)[1]
         /\ method = C1_Expected(methodString)[2]
    /\ \A other \in RecognisedNames \ { methodString } :
         << DispatchTarget(MethodFromString(other)), MethodFromString(other) >>
           # << DispatchTarget(MethodFromString(methodString)), MethodFromString(methodString) >>

C1_Witness ==
  /\ Dispatched /\ methodString = "VTKShepardKernel" /\ Done
  /\ adapterCalls = << << "VTKPointInterpolatorResampling", VTK_SHEPARD_KERNEL >> >>
  /\ pointInterpolator.kernel.class = "vtkShepardKernel"

\* ---------------------------------------------------------------------- C2
\* C2: a call of ScanConversionResampling with an unrecognised methodString
\* invokes no adapter and updates no toolkit stage, and when it has returned
\* it has printed the unknown-method message and returned EXIT_FAILURE.
C2_UnrecognisedNameFails ==
  (Dispatched /\ methodString \in UnrecognisedNames) =>
    /\ adapterCalls = << >>
    /\ constructed = { }
    /\ \A s \in Stages : updates[s] = 0
    /\ Done => /\ ret = EXIT_FAILURE
               /\ cerr = << "Unknown scan conversion resampling method" >>

\* ---------------------------------------------------------------------- C3
\* The geometry the running chain has been configured with.
ChainGeometry ==
  IF adapter = "ITKScanConversionResampling"
    THEN [ size |-> resampler.size, spacing |-> resampler.spacing,
           origin |-> resampler.origin, direction |-> resampler.direction ]
    ELSE [ size |-> grid.dimensions, spacing |-> grid.spacing,
           origin |-> grid.origin, direction |-> grid.direction ]

GeometryStageRan ==
  /\ Dispatched /\ methodString \in RecognisedNames
  /\ adapter # "none"
  /\ updates[GeometryStage(adapter)] > 0

\* C3 as claimed: for every recognised method the chain is configured with
\* the caller's size, spacing, origin and direction before it is run.
C3_AllFourDescriptorsEveryMethod ==
  GeometryStageRan =>
    ChainGeometry = [ size |-> size, spacing |-> spacing, origin |-> origin,
                      direction |-> direction ]

\* C3 amended: the chain is configured with the caller's size, spacing and
\* origin before its geometry-consuming stage is run for every recognised
\* method; with the caller's direction for the three ITK methods only; the
\* five VTK methods leave the grid's direction at the identity whatever
\* direction the caller passed.
C3_GeometryPerToolkit ==
  GeometryStageRan =>
    /\ ChainGeometry.size = size
    /\ ChainGeometry.spacing = spacing
    /\ ChainGeometry.origin = origin
    /\ ChainGeometry.direction =
         IF method \in ITKMethods THEN direction ELSE IdentityDirection

C3_Witness ==
  /\ GeometryStageRan
  /\ methodString = "VTKGaussianKernel"
  /\ direction # IdentityDirection
  /\ grid.direction = IdentityDirection
  /\ grid.origin = origin

\* ---------------------------------------------------------------------- C4
\* C4: when ScanConversionResampling has returned after invoking an adapter,
\* it returned what the adapter returned; it returns from its own last line
\* only when no adapter was invoked, and then with EXIT_FAILURE.
C4_ForwardsAdapterReturnCode ==
  (Dispatched /\ Done) =>
    /\ adapterCalls # << >> => (ret = adapterRet /\ adapterRet \in { EXIT_SUCCESS, EXIT_FAILURE })
    /\ adapterCalls = << >> => ret = EXIT_FAILURE
    /\ returnLine = 392 => (adapterCalls = << >> /\ adapterRet = NoReturn)

C4_Witness ==
  /\ Dispatched /\ Done
  /\ Len(adapterCalls) = 1
  /\ adapterRet = EXIT_SUCCESS
  /\ ret = EXIT_SUCCESS

\* ---------------------------------------------------------------------- C5
\* What must have happened before each stage's Update(): its input is set,
\* its parameters are set, and the stage feeding it has been updated.
ReadyToUpdate(s) ==
  CASE s = "resampler" ->
         /\ input[s] = "inputImage"
         /\ resampler.size = size /\ resampler.spacing = spacing
         /\ resampler.origin = origin /\ resampler.direction = direction
         /\ resampler.interpolator[1] \notin { "default", "unsupported" }
    [] s = "conversionFilter" -> input[s] = "inputImage"
    [] s = "probeFilter" ->
         /\ source[s] = "conversionFilter" /\ updates["conversionFilter"] > 0
         /\ input[s] = "grid" /\ "grid" \in constructed
         /\ grid.dimensions = size /\ grid.spacing = spacing /\ grid.origin = origin
    [] s = "pointInterpolator" ->
         /\ source[s] = "conversionFilter" /\ updates["conversionFilter"] > 0
         /\ input[s] = "grid" /\ "grid" \in constructed
         /\ grid.dimensions = size /\ grid.spacing = spacing /\ grid.origin = origin
         /\ pointInterpolator.kernel # NullKernel
         /\ pointInterpolator.kernel = KernelFor(method, 11 * MaxSpacingUpTo(spacing, ImageDimension))
         /\ pointInterpolator.nullPointsStrategy = "NullValue"
         /\ ~pointInterpolator.passPointArrays
    [] s = "vtkToITKFilter" ->
         /\ input[s] \in { "probeFilter", "pointInterpolator" }
         /\ updates[input[s]] > 0
    [] s = "caster" ->
         /\ input[s] = "vtkToITKFilter" /\ updates["vtkToITKFilter"] > 0

\* C5: in every adapter a stage is updated only after it was constructed and
\* its input and parameters were set, a downstream stage only after the stage
\* feeding it was updated, and no stage's output is read, and no result
\* assigned, before that stage was updated.
C5_SetBeforeUpdateBeforeExtract ==
  /\ \A s \in Stages : updates[s] > 0 => (s \in constructed /\ ReadyToUpdate(s))
  /\ staleReads = { }
  /\ assignments > 0 => updates[outputImage.source] > 0

C5_Witness ==
  /\ adapter = "VTKPointInterpolatorResampling"
  /\ adapterRet = EXIT_SUCCESS
  /\ \A s \in PointStages : updates[s] = 1
  /\ outputImage.source = "caster"

\* ---------------------------------------------------------------------- C6
\* C6: when the called function has returned EXIT_SUCCESS, outputImage has
\* been assigned exactly once, to the output-typed result of the chain's last
\* stage, with every stage of the chain updated; when it has returned
\* EXIT_FAILURE, or has not returned, outputImage is what the caller passed.
C6_OutputAssignedIffSuccess ==
  /\ adapterRet = EXIT_SUCCESS =>
       /\ assignments = 1
       /\ outputImage.source = LastStage(adapter)
       /\ outputImage.type = "OutputImageType"
       /\ \A s \in StagesOf(adapter) : updates[s] > 0
  /\ adapterRet # EXIT_SUCCESS => (assignments = 0 /\ outputImage = CallerImage)
  /\ CallResult = EXIT_FAILURE => (assignments = 0 /\ outputImage = CallerImage)
  /\ CallResult = EXIT_SUCCESS => (assignments = 1 /\ outputImage # CallerImage)

C6_Witness ==
  /\ Dispatched /\ Done /\ ret = EXIT_SUCCESS
  /\ adapter = "VTKProbeFilterResampling"
  /\ assignments = 1
  /\ outputImage.source = "vtkToITKFilter"

\* ---------------------------------------------------------------------- C7
C7_SinglePass ==
  /\ \A s \in Stages : updates[s] <= 1
  /\ Len(adapterCalls) <= 1
  /\ constructed \subseteq ObjectsOf(adapter)
  /\ \A s \in Stages \ StagesOf(adapter) : updates[s] = 0

C7_Finished == Thrown \/ (Done /\ CallResult \in { EXIT_SUCCESS, EXIT_FAILURE })

\* C7: during one call every stage is updated at most once, only objects of
\* the selected adapter's chain are constructed or updated, and, unless a
\* toolkit call throws instead of returning, the call ends by returning
\* EXIT_SUCCESS or EXIT_FAILURE.
C7_LinearPassTerminates == [](C7_SinglePass) /\ <>(C7_Finished)

C7_Witness ==
  /\ Dispatched /\ Done /\ ret = EXIT_SUCCESS
  /\ adapter = "VTKPointInterpolatorResampling"
  /\ \A s \in PointStages : updates[s] = 1
  /\ updates["resampler"] = 0 /\ updates["probeFilter"] = 0

\* ---------------------------------------------------------------------- C8
\* C8: at most one kernel is created, Delete() is never called through the
\* null pointer, a kernel is deleted at most once and not before the point
\* interpolator was updated, and when the adapter has returned every kernel
\* created has been deleted.
C8_KernelHandledSafely ==
  /\ kernelsNew <= 1
  /\ nullDeletes = 0
  /\ kernelsDeleted <= kernelsNew
  /\ kernelsDeleted > 0 => updates["pointInterpolator"] > 0
  /\ adapterRet \in { EXIT_SUCCESS, EXIT_FAILURE } => kernelsDeleted = kernelsNew

C8_Witness ==
  /\ adapter = "VTKPointInterpolatorResampling"
  /\ adapterRet = EXIT_SUCCESS
  /\ kernelsNew = 1 /\ kernelsDeleted = 1

\* ---------------------------------------------------------------------- C9
\* C9: the dispatcher passes ITKScanConversionResampling only the three ITK
\* methods and VTKPointInterpolatorResampling only the four kernel methods,
\* so no unsupported-method return of an adapter is taken through the
\* dispatcher; the second unsupported-method return of
\* VTKPointInterpolatorResampling is taken for no method value at all.
C9_AdaptersGetSupportedMethods ==
  /\ \A i \in DOMAIN adapterCalls :
       /\ adapterCalls[i][1] = "ITKScanConversionResampling" => adapterCalls[i][2] \in ITKMethods
       /\ adapterCalls[i][1] = "VTKPointInterpolatorResampling" => adapterCalls[i][2] \in KernelMethods
       /\ adapterCalls[i][1] = "VTKProbeFilterResampling" => adapterCalls[i][2] = VTK_PROBE_FILTER
  /\ Dispatched => (returnLine \notin { 109, 255, 277 } /\ cerr = << >>)
  /\ returnLine # 277
  /\ pc = "PI_set_kernel" => SecondSwitchTakesCase(method)

C9_Witness ==
  /\ Dispatched
  /\ adapterCalls = << << "VTKPointInterpolatorResampling", VTK_VORONOI_KERNEL >> >>
  /\ pc = "PI_interpolator_update"

\* --------------------------------------------------------------------- C10
UnsupportedDirectCall ==
  \/ entry = "ITKScanConversionResampling" /\ method \notin ITKMethods
  \/ entry = "VTKPointInterpolatorResampling" /\ method \notin KernelMethods

\* C10 as claimed: an adapter called directly with a method it does not
\* support has returned EXIT_FAILURE without any toolkit stage having been
\* updated.
C10_RejectsBeforeAnyUpdate ==
  (UnsupportedDirectCall /\ Done) =>
    /\ adapterRet = EXIT_FAILURE
    /\ \A s \in Stages : updates[s] = 0

\* C10 amended: an adapter called directly with a method it does not support
\* returns EXIT_FAILURE without the resampler, the point interpolator, the
\* VTK-to-ITK filter or the caster having been updated and without a kernel
\* having been created; VTKPointInterpolatorResampling has by then updated
\* its conversion filter once, ITKScanConversionResampling has updated
\* nothing.
C10_RejectsBeforeResampling ==
  (UnsupportedDirectCall /\ Done) =>
    /\ adapterRet = EXIT_FAILURE
    /\ \A s \in Stages \ { "conversionFilter" } : updates[s] = 0
    /\ updates["conversionFilter"] = IF entry = "VTKPointInterpolatorResampling" THEN 1 ELSE 0
    /\ kernelsNew = 0
    /\ assignments = 0

C10_Witness ==
  /\ entry = "VTKPointInterpolatorResampling" /\ method = ITK_LINEAR /\ Done
  /\ adapterRet = EXIT_FAILURE
  /\ updates["conversionFilter"] = 1
  /\ returnLine = 255
====
